---- MODULE Spec2Model ----
(***************************************************************************)
(* Chunked transcoding pipeline of files/models.py: the Encoding rows of   *)
(* one Media, the post_save / post_delete receivers of Encoding            *)
(* (encoding_file_save, encoding_file_delete), Media.post_encode_actions   *)
(* and Media.set_encoding_status.                                          *)
(*                                                                         *)
(* The database runs in Django's autocommit mode: every ORM call (a query, *)
(* a save, a delete) is one atomic step, and a receiver that makes several *)
(* calls is a process that other receivers interleave with between calls.  *)
(* Media.post_encode_actions (a query followed at once by the save of the  *)
(* value it computed) is taken as part of the step that invokes it.        *)
(***************************************************************************)
EXTENDS Naturals, Sequences, FiniteSets

VARIABLES
    encodings,        \* the Encoding table: the rows of the media
    nextId,           \* the next primary key the table hands out
    encoding_status,  \* Media.encoding_status as stored
    hls,              \* number of tasks.create_hls calls made so far
    chunk_files,      \* TRUE while the chunk source files of the manifest exist
    pc,               \* per handler: where its encoding_file_save stands
    instance,         \* per handler: the chunk job as its worker saved it
    complete,         \* per handler: local "complete" of encoding_file_save
    chunks_paths,     \* per handler: the evaluated "chunks" queryset, in order
    encoding,         \* per handler: id of the job it synthesized (0: none)
    who,              \* per handler: the rows its QuerySet.delete() collected
    overlap,          \* history: a report arrived while a handler was running
    arg,              \* input drawn for a function applied on its own
    ret,              \* result of that application
    artifacts         \* ids of the jobs whose output file is in the storage

vars == <<encodings, nextId, encoding_status, hls, chunk_files, pc, instance,
          complete, chunks_paths, encoding, who, overlap, arg, ret, artifacts>>

(***************************************************************************)
(* Bounds of the model.                                                    *)
(***************************************************************************)
\* number of boundaries (chunk files) of the manifest
NumBoundaries == 2
\* largest number of jobs drawn when a function is applied on its own, and of
\* whole-file jobs created in the job life cycle
MaxJobs == 3
\* largest number of saves of whole-file jobs in the job life cycle
MaxSaves == 3
\* longest profile list handed to Media.encode
MaxProfiles == 3

(***************************************************************************)
(* Configuration: statuses, profiles, the manifest.                        *)
(***************************************************************************)
MEDIA_ENCODING_STATUS == {"pending", "running", "fail", "success"}

Profiles == {"mp4_h264", "mp4_h265", "webm_vp9", "gif"}

Extension(p) ==
    CASE p = "mp4_h264" -> "mp4"
      [] p = "mp4_h265" -> "mp4"
      [] p = "webm_vp9" -> "webm"
      [] p = "webm_h264" -> "webm"
      [] OTHER -> "gif"

Codec(p) ==
    CASE p = "mp4_h264" -> "h264"
      [] p = "mp4_h265" -> "h265"
      [] p = "webm_vp9" -> "vp9"
      [] p = "webm_h264" -> "h264"
      [] OTHER -> "none"

\* the profiles an administrator can set up: extension and codec are
\* independent fields, so an h264 profile need not be an mp4 profile
ConfigurableProfiles == Profiles \cup {"webm_h264"}

\* the profiles whose encode is chunked in this model, in dispatch order
ChunkedProfiles == <<"mp4_h264", "mp4_h265">>

\* the manifest (chunks_info): its keys are the chunk file paths 1..NumBoundaries
Manifest == "M"

orig_chunks == [b \in 1..NumBoundaries |-> b]

\* the media whose chunk sets are followed, and another media of the portal
TheMedia == "media"
AnotherMedia == "another media"

Encoding(id, profile, status, media_file, chunk, chunk_file_path, chunks_info) ==
    [id |-> id, media |-> TheMedia, profile |-> profile, status |-> status,
     media_file |-> media_file, chunk |-> chunk, chunk_file_path |-> chunk_file_path,
     chunks_info |-> chunks_info]

\* the id of the chunk job of boundary b of the i-th chunked profile
ChunkId(i, b) == Len(ChunkedProfiles) + (i - 1) * NumBoundaries + b

\* one completion handler per boundary of the chunk set that is completing
Handlers == 1..NumBoundaries

(***************************************************************************)
(* Queries and functions of the code.                                      *)
(***************************************************************************)
\* faulty variant of order_by_add_date: the newest row first
RECURSIVE order_by_add_date_desc(_)
order_by_add_date_desc(S) ==
    IF S = {} THEN <<>>
    ELSE LET m == CHOOSE e \in S : \A f \in S : e.id >= f.id
         IN <<m>> \o order_by_add_date_desc(S \ {m})

\* rows in ascending add_date: ids are handed out in creation order
RECURSIVE order_by_add_date(_)
order_by_add_date(S) ==
    IF S = {} THEN <<>>
    ELSE LET m == CHOOSE e \in S : \A f \in S : e.id <= f.id
         IN <<m>> \o order_by_add_date(S \ {m})

\* the "chunks" queryset of the success branch
Chunks(rows, inst) ==
    {e \in rows : /\ e.media = inst.media /\ e.profile = inst.profile
                  /\ e.chunks_info = inst.chunks_info /\ e.chunk}

\* faulty variant of BoundariesPresent: the rows are counted, not matched to the keys
BoundariesByCount(orig, chunks) == Cardinality(chunks) >= Len(orig)

\* faulty variant of BoundariesPresent: one key of the manifest with a row is enough
BoundariesSome(orig, chunks) ==
    \E k \in 1..Len(orig) : \E c \in chunks : c.chunk_file_path = orig[k]

\* first validation loop: every key of the manifest has a row among chunks
RECURSIVE BoundariesPresent(_, _)
BoundariesPresent(orig, chunks) ==
    IF orig = <<>> THEN TRUE
    ELSE IF ~(\E c \in chunks : c.chunk_file_path = Head(orig)) THEN FALSE
    ELSE BoundariesPresent(Tail(orig), chunks)

\* faulty variant of FilesPresent: only the oldest row is asked for its file
FilesPresentOldest(chunks) ==
    IF chunks = <<>> THEN TRUE ELSE Head(chunks).media_file

\* second validation loop: every row of chunks has a media_file
RECURSIVE FilesPresent(_)
FilesPresent(chunks) ==
    IF chunks = <<>> THEN TRUE
    ELSE IF ~Head(chunks).media_file THEN FALSE
    ELSE FilesPresent(Tail(chunks))

\* the value of "complete" when both loops read the same table
CompleteCheck(orig, rows, inst) ==
    BoundariesPresent(orig, Chunks(rows, inst))
    /\ FilesPresent(order_by_add_date(Chunks(rows, inst)))

\* faulty variant of SetEncodingStatus: running is looked for before success
SetEncodingStatusRunningFirst(rows) ==
    LET mp4_statuses ==
            {e.status : e \in {x \in rows : /\ x.media = TheMedia
                                           /\ Extension(x.profile) = "mp4" /\ ~x.chunk}}
    IN IF mp4_statuses = {} THEN "pending"
       ELSE IF "running" \in mp4_statuses THEN "running"
       ELSE IF "success" \in mp4_statuses THEN "success"
       ELSE "fail"

\* Media.set_encoding_status
SetEncodingStatus(rows) ==
    LET mp4_statuses ==
            {e.status : e \in {x \in rows : /\ x.media = TheMedia
                                           /\ Extension(x.profile) = "mp4" /\ ~x.chunk}}
    IN IF mp4_statuses = {} THEN "pending"
       ELSE IF "success" \in mp4_statuses THEN "success"
       ELSE IF "running" \in mp4_statuses THEN "running"
       ELSE "fail"

\* the condition under which Media.post_encode_actions calls tasks.create_hls
CreateHls(job, action) ==
    job.status = "success" /\ Codec(job.profile) = "h264" /\ action = "add"

\* faulty variant of Recount: the chunks_info filter is left out
RecountAllRows(rows, inst) ==
    Cardinality({e \in rows : e.media = inst.media /\ e.profile = inst.profile})

\* the recount of the final validation
Recount(rows, inst) ==
    Cardinality({e \in rows : /\ e.media = inst.media /\ e.profile = inst.profile
                              /\ e.chunks_info = inst.chunks_info})

\* faulty variant of Who: only the chunk rows are superseded
WhoChunksOnly(rows, profile, id) ==
    {e \in rows : e.media = TheMedia /\ e.profile = profile /\ e.id # id /\ e.chunk}

\* the "who" queryset: the other rows of the (media, profile)
Who(rows, profile, id) ==
    {e \in rows : e.media = TheMedia /\ e.profile = profile /\ e.id # id}

\* the "chunks" queryset of the fail branch (it does not filter by profile)
FailChunks(rows, inst) ==
    {e \in rows : e.media = inst.media /\ e.chunks_info = inst.chunks_info /\ e.chunk}

\* faulty variant of NoReference: only the rows of the job's profile are read
NoReferenceOwnProfile(rows, inst) ==
    ~(\E e \in rows : e.chunks_info = inst.chunks_info /\ e.profile = inst.profile)

\* the cleanup check: no row of any profile references the manifest
NoReference(rows, inst) ==
    ~(\E e \in rows : e.chunks_info = inst.chunks_info)

\* chunks_info that json.loads does not take for an object with keys
BadManifest == "not json"

\* json.loads(instance.chunks_info).keys() gives the keys of the manifest
Parsable(chunks_info) == chunks_info = Manifest

\* Model.save() of a row that has a primary key: UPDATE, and INSERT if no row matched
Save(rows, row) ==
    {e \in rows : e.id # row.id} \cup {row}

\* the rows left after Collector.delete() removed the collected primary keys
DeleteRows(rows, collected) ==
    {e \in rows : ~(\E d \in collected : d.id = e.id)}

\* encoding_file_delete runs post_encode_actions for some collected instance
DeleteResolves(collected) ==
    \E d \in collected : d.media_file /\ ~d.chunk

(***************************************************************************)
(* Initial state: the chunk jobs of profile ChunkedProfiles[active] have    *)
(* been dispatched and are being encoded; the chunk jobs of the other      *)
(* chunked profiles (same manifest) are either still being encoded or were *)
(* reconciled before; a profile may still hold the whole-file job of an    *)
(* earlier encode, ended with success or with fail.  The stored status is  *)
(* the resolver's value.                                                   *)
(***************************************************************************)
ChunkJob(i, b) ==
    Encoding(ChunkId(i, b), ChunkedProfiles[i], "running", FALSE, TRUE, b, Manifest)

InitRows(cp, old, st) ==
    {Encoding(i, ChunkedProfiles[i], st, st = "success", FALSE, 0, "") : i \in old}
    \cup {ChunkJob(i, b) : i \in cp, b \in 1..NumBoundaries}

AllProfiles == 1..Len(ChunkedProfiles)

\* the ids of the rows that have a file
Stored(rows) == {e.id : e \in {r \in rows : r.media_file}}

NoArg == [fn |-> "none"]

InitLocals(active) ==
    /\ pc = [h \in Handlers |-> "idle"]
    /\ instance = [h \in Handlers |-> ChunkJob(active, h)]
    /\ complete = [h \in Handlers |-> FALSE]
    /\ chunks_paths = [h \in Handlers |-> <<>>]
    /\ encoding = [h \in Handlers |-> 0]
    /\ who = [h \in Handlers |-> {}]

Init ==
    /\ \E active \in AllProfiles, others \in {{}, AllProfiles}, old \in SUBSET AllProfiles,
          st \in {"success", "fail"} :
          /\ encodings = InitRows({active} \cup others, old, st)
          /\ encoding_status = SetEncodingStatus(InitRows({active} \cup others, old, st))
          /\ artifacts = Stored(InitRows({active} \cup others, old, st))
          /\ InitLocals(active)
    /\ nextId = Len(ChunkedProfiles) * (NumBoundaries + 1) + 1
    /\ hls = 0
    /\ chunk_files = TRUE
    /\ overlap = FALSE
    /\ arg = NoArg
    /\ ret = <<>>

(***************************************************************************)
(* Media.post_encode_actions as run by the receivers.                      *)
(***************************************************************************)
\* post_encode_actions(encoding=job, action="add") on the table rows
PostEncodeAdd(rows, job) ==
    /\ encoding_status' = SetEncodingStatus(rows)
    /\ hls' = IF CreateHls(job, "add") THEN hls + 1 ELSE hls

\* encoding_file_save of a job that is not a chunk (the else branch)
NonChunkSaved(rows, job) ==
    IF job.status \in {"fail", "success"}
    THEN PostEncodeAdd(rows, job)
    ELSE UNCHANGED <<encoding_status, hls>>

\* encoding_file_delete for the collected instances, the table being rows
PostDelete(rows, collected) ==
    /\ encoding_status' = IF DeleteResolves(collected)
                          THEN SetEncodingStatus(rows) ELSE encoding_status
    /\ hls' = hls
    /\ artifacts' = artifacts \ Stored(collected)

(***************************************************************************)
(* The worker's report: it saves the chunk job, post_save starts.          *)
(***************************************************************************)
Busy(h) == pc[h] \notin {"idle", "done", "raised"}

ReportChunk(h, st, file) ==
    /\ pc[h] = "idle"
    /\ \E e \in encodings :
          /\ e.id = instance[h].id
          /\ LET saved == [e EXCEPT !.status = st, !.media_file = file]
             IN /\ encodings' = Save(encodings, saved)
                /\ instance' = [instance EXCEPT ![h] = saved]
    /\ pc' = [pc EXCEPT ![h] =
                IF st = "success" THEN (IF file THEN "exists" ELSE "done")
                ELSE "fail_load"]
    /\ overlap' = (overlap \/ \E g \in Handlers : Busy(g))
    /\ artifacts' = IF file THEN artifacts \cup {instance[h].id} ELSE artifacts
    /\ UNCHANGED <<nextId, encoding_status, hls, chunk_files, complete,
                   chunks_paths, encoding, who, arg, ret>>

(***************************************************************************)
(* encoding_file_save, chunk with status success.                          *)
(***************************************************************************)
CheckBoundaries(h) ==
    /\ pc[h] = "exists"
    /\ Parsable(instance[h].chunks_info)
    /\ complete' = [complete EXCEPT ![h] =
                      BoundariesPresent(orig_chunks, Chunks(encodings, instance[h]))]
    /\ pc' = [pc EXCEPT ![h] = "load"]
    /\ UNCHANGED <<encodings, nextId, encoding_status, hls, chunk_files, instance,
                   chunks_paths, encoding, who, overlap, arg, ret,
                   artifacts>>

LoadChunks(h) ==
    /\ pc[h] = "load"
    /\ LET chunks == order_by_add_date(Chunks(encodings, instance[h]))
           ok == complete[h] /\ FilesPresent(chunks)
       IN /\ complete' = [complete EXCEPT ![h] = ok]
          /\ chunks_paths' = [chunks_paths EXCEPT ![h] =
                                [k \in 1..Len(chunks) |-> chunks[k].chunk_file_path]]
          /\ pc' = [pc EXCEPT ![h] = IF ok THEN "insert" ELSE "done"]
    /\ UNCHANGED <<encodings, nextId, encoding_status, hls, chunk_files, instance,
                   encoding, who, overlap, arg, ret,
                   artifacts>>

\* how helpers.run_command(cmd) of the concatenation can end
ConcatOutcomes == {"ok", "nonzero", "timeout"}

\* the status of the job built after the concatenation: stdout goes to the
\* logs of the job and is not read
AssembledStatus(stdout) == "success"

\* the concatenation has run; encoding.save(): the synthesized job is
\* inserted, and post_save runs for it
InsertEncoding(h) ==
    /\ pc[h] = "insert"
    /\ \E stdout \in ConcatOutcomes :
          LET job == Encoding(nextId, instance[h].profile, AssembledStatus(stdout),
                              FALSE, FALSE, 0, "")
          IN /\ encodings' = Save(encodings, job)
             /\ NonChunkSaved(Save(encodings, job), job)
    /\ encoding' = [encoding EXCEPT ![h] = nextId]
    /\ nextId' = nextId + 1
    /\ pc' = [pc EXCEPT ![h] = "attach"]
    /\ UNCHANGED <<chunk_files, instance, complete, chunks_paths, who, overlap, arg, ret,
                   artifacts>>

\* encoding.media_file.save(): the file is attached and the job saved again
AttachFile(h) ==
    /\ pc[h] = "attach"
    /\ LET job == Encoding(encoding[h], instance[h].profile, "success", TRUE, FALSE, 0, "")
       IN /\ encodings' = Save(encodings, job)
          /\ NonChunkSaved(Save(encodings, job), job)
    /\ pc' = [pc EXCEPT ![h] = "recount"]
    /\ artifacts' = artifacts \cup {encoding[h]}
    /\ UNCHANGED <<nextId, chunk_files, instance, complete, chunks_paths, encoding,
                   who, overlap, arg, ret>>

\* final validation to avoid double-run
FinalValidation(h) ==
    /\ pc[h] = "recount"
    /\ pc' = [pc EXCEPT ![h] =
                IF Len(orig_chunks) = Recount(encodings, instance[h])
                THEN "collect" ELSE "discard"]
    /\ UNCHANGED <<encodings, nextId, encoding_status, hls, chunk_files, instance,
                   complete, chunks_paths, encoding, who, overlap, arg, ret,
                   artifacts>>

\* who.delete(), first half: the collector reads the rows to delete
CollectWho(h) ==
    /\ pc[h] \in {"collect", "fail_collect"}
    /\ who' = [who EXCEPT ![h] = Who(encodings, instance[h].profile, encoding[h])]
    /\ pc' = [pc EXCEPT ![h] = IF pc[h] = "collect" THEN "delete" ELSE "fail_delete"]
    /\ UNCHANGED <<encodings, nextId, encoding_status, hls, chunk_files, instance,
                   complete, chunks_paths, encoding, overlap, arg, ret,
                   artifacts>>

\* who.delete(), second half: the rows go, then post_delete runs for each
DeleteWho(h) ==
    /\ pc[h] \in {"delete", "fail_delete"}
    /\ encodings' = DeleteRows(encodings, who[h])
    /\ PostDelete(DeleteRows(encodings, who[h]), who[h])
    /\ who' = [who EXCEPT ![h] = {}]
    /\ pc' = [pc EXCEPT ![h] = IF pc[h] = "delete" THEN "cleanup" ELSE "done"]
    /\ UNCHANGED <<nextId, chunk_files, instance, complete, chunks_paths, encoding,
                   overlap, arg, ret>>

\* faulty variant of DiscardOwn: the other rows of the pair go as well
DiscardAll(h) ==
    /\ pc[h] = "discard"
    /\ LET all == {e \in encodings : e.profile = instance[h].profile}
       IN /\ encodings' = DeleteRows(encodings, all)
          /\ PostDelete(DeleteRows(encodings, all), all)
    /\ pc' = [pc EXCEPT ![h] = "cleanup"]
    /\ UNCHANGED <<nextId, chunk_files, instance, complete, chunks_paths, encoding,
                   who, overlap, arg, ret>>

\* encoding.delete(): the handler discards the job it has just assembled
DiscardOwn(h) ==
    /\ pc[h] = "discard"
    /\ LET own == {Encoding(encoding[h], instance[h].profile, "success", TRUE, FALSE, 0, "")}
       IN /\ encodings' = DeleteRows(encodings, own)
          /\ PostDelete(DeleteRows(encodings, own), own)
    /\ pc' = [pc EXCEPT ![h] = "cleanup"]
    /\ UNCHANGED <<nextId, chunk_files, instance, complete, chunks_paths, encoding,
                   who, overlap, arg, ret>>

\* the chunk source files are removed if no row references the manifest
Cleanup(h) ==
    /\ pc[h] = "cleanup"
    /\ chunk_files' = IF NoReference(encodings, instance[h]) THEN FALSE ELSE chunk_files
    /\ pc' = [pc EXCEPT ![h] = "final"]
    /\ UNCHANGED <<encodings, nextId, encoding_status, hls, instance, complete,
                   chunks_paths, encoding, who, overlap, arg, ret,
                   artifacts>>

\* the job the handler hands to post_encode_actions after the assembly:
\* encoding=instance, the chunk job that reported
HookArgument(h) == instance[h]

\* instance.media.post_encode_actions(encoding=instance, action="add")
PostEncode(h) ==
    /\ pc[h] = "final"
    /\ PostEncodeAdd(encodings, HookArgument(h))
    /\ pc' = [pc EXCEPT ![h] = "done"]
    /\ UNCHANGED <<encodings, nextId, chunk_files, instance, complete, chunks_paths,
                   encoding, who, overlap, arg, ret,
                   artifacts>>

(***************************************************************************)
(* encoding_file_save, chunk with status fail.                             *)
(***************************************************************************)
\* chunks_paths = [f.media_file.path for f in chunks]: FieldFile.path raises
\* ValueError for a row without a file, and the handler ends there
FailLoad(h) ==
    /\ pc[h] = "fail_load"
    /\ LET chunks == order_by_add_date(FailChunks(encodings, instance[h]))
       IN IF FilesPresent(chunks)
          THEN /\ chunks_paths' = [chunks_paths EXCEPT ![h] =
                                     [k \in 1..Len(chunks) |-> chunks[k].chunk_file_path]]
               /\ pc' = [pc EXCEPT ![h] = "fail_insert"]
          ELSE /\ chunks_paths' = chunks_paths
               /\ pc' = [pc EXCEPT ![h] = "raised"]
    /\ UNCHANGED <<encodings, nextId, encoding_status, hls, chunk_files, instance,
                   complete, encoding, who, overlap, arg, ret,
                   artifacts>>

\* encoding.save(): the synthesized fail job is inserted, post_save runs for it
FailInsert(h) ==
    /\ pc[h] = "fail_insert"
    /\ LET job == Encoding(nextId, instance[h].profile, "fail", FALSE, FALSE, 0, "")
       IN /\ encodings' = Save(encodings, job)
          /\ NonChunkSaved(Save(encodings, job), job)
    /\ encoding' = [encoding EXCEPT ![h] = nextId]
    /\ nextId' = nextId + 1
    /\ pc' = [pc EXCEPT ![h] = "fail_collect"]
    /\ UNCHANGED <<chunk_files, instance, complete, chunks_paths, who, overlap, arg, ret,
                   artifacts>>

(***************************************************************************)
(* Specifications.                                                         *)
(***************************************************************************)
Step(h) ==
    \/ CheckBoundaries(h)
    \/ LoadChunks(h)
    \/ InsertEncoding(h)
    \/ AttachFile(h)
    \/ FinalValidation(h)
    \/ CollectWho(h)
    \/ DeleteWho(h)
    \/ DiscardOwn(h)
    \/ Cleanup(h)
    \/ PostEncode(h)
    \/ FailLoad(h)
    \/ FailInsert(h)

Report(h) == \E st \in {"success", "fail"}, file \in BOOLEAN : ReportChunk(h, st, file)

\* completion callbacks arrive concurrently and in any order
Next == \E h \in Handlers : Report(h) \/ Step(h)

Spec == Init /\ [][Next]_vars

\* every worker reports in the end, and a receiver that has started runs on
\* to its end
FairSpec ==
    Spec /\ \A h \in Handlers : WF_vars(Report(h)) /\ WF_vars(Step(h))

(***************************************************************************)
(* Late and duplicate reports.  The chunk set of the active profile has    *)
(* been reconciled: it was assembled, or a chunk of it failed, its chunk   *)
(* rows are deleted and one non-chunk job is left for the pair (a failed   *)
(* one only when no other profile shares the manifest: with rows of        *)
(* another profile that have no file the fail branch raises).  A worker    *)
(* that still holds a chunk job of the set then saves it: Model.save finds *)
(* no row to update, inserts the row again, and post_save runs.  arg keeps *)
(* the job that was left and the status that was stored.  The row keeps    *)
(* its key; its add_date is set anew by the insert, so the order in which  *)
(* a late handler reads the rows is not the object of this specification.  *)
(***************************************************************************)
\* the primary key of the job the reconciliation left
ReconciledId == Len(ChunkedProfiles) * (NumBoundaries + 1) + 1

ReconciledRows(active, others, outcome) ==
    {Encoding(ReconciledId, ChunkedProfiles[active], outcome, outcome = "success",
              FALSE, 0, "")}
    \cup {ChunkJob(i, b) : i \in others, b \in 1..NumBoundaries}

InitLate ==
    /\ \E active \in AllProfiles, others \in {{}, AllProfiles}, outcome \in {"success", "fail"} :
          LET rows == ReconciledRows(active, others \ {active}, outcome)
          IN /\ outcome = "fail" => others = {}
             /\ encodings = rows
             /\ encoding_status = SetEncodingStatus(rows)
             /\ artifacts = Stored(rows)
             /\ chunk_files = (outcome = "fail" \/ others # {})
             /\ arg = [fn |-> "late", job |-> CHOOSE e \in rows : e.id = ReconciledId,
                       status |-> SetEncodingStatus(rows)]
             /\ InitLocals(active)
    /\ nextId = ReconciledId + 1
    /\ hls = 0
    /\ overlap = FALSE
    /\ ret = <<>>

\* the worker's save of a chunk job whose row is gone, and the start of
\* post_save for it
LateReport(h, st, file) ==
    /\ pc[h] = "idle"
    /\ LET saved == [instance[h] EXCEPT !.status = st, !.media_file = file]
       IN /\ encodings' = Save(encodings, saved)
          /\ instance' = [instance EXCEPT ![h] = saved]
    /\ pc' = [pc EXCEPT ![h] =
                IF st = "success" THEN (IF file THEN "exists" ELSE "done")
                ELSE "fail_load"]
    /\ overlap' = (overlap \/ \E g \in Handlers : Busy(g))
    /\ artifacts' = IF file THEN artifacts \cup {instance[h].id} ELSE artifacts
    /\ UNCHANGED <<nextId, encoding_status, hls, chunk_files, complete,
                   chunks_paths, encoding, who, arg, ret>>

NextLate ==
    \E h \in Handlers :
        \/ \E st \in {"success", "fail"}, file \in BOOLEAN : LateReport(h, st, file)
        \/ Step(h)

SpecLate == InitLate /\ [][NextLate]_vars

(***************************************************************************)
(* A manifest that cannot be parsed.  The chunk rows of the media carry a  *)
(* chunks_info that json.loads rejects; the workers report as before.  The *)
(* success branch stops at the parse, the fail branch never parses.        *)
(***************************************************************************)
WithManifest(rows, chunks_info) ==
    {IF e.chunk THEN [e EXCEPT !.chunks_info = chunks_info] ELSE e : e \in rows}

InitBadManifest ==
    /\ \E active \in AllProfiles, others \in {{}, AllProfiles}, old \in SUBSET AllProfiles,
          st \in {"success", "fail"} :
          LET rows == WithManifest(InitRows({active} \cup others, old, st), BadManifest)
          IN /\ encodings = rows
             /\ encoding_status = SetEncodingStatus(rows)
             /\ artifacts = Stored(rows)
             /\ instance = [h \in Handlers |->
                              [ChunkJob(active, h) EXCEPT !.chunks_info = BadManifest]]
    /\ pc = [h \in Handlers |-> "idle"]
    /\ complete = [h \in Handlers |-> FALSE]
    /\ chunks_paths = [h \in Handlers |-> <<>>]
    /\ encoding = [h \in Handlers |-> 0]
    /\ who = [h \in Handlers |-> {}]
    /\ nextId = Len(ChunkedProfiles) * (NumBoundaries + 1) + 1
    /\ hls = 0
    /\ chunk_files = TRUE
    /\ overlap = FALSE
    /\ arg = NoArg
    /\ ret = <<>>

\* faulty variant of ParseFails: the receiver returns and leaves the job
ParseFailsKeepsJob(h) ==
    /\ pc[h] = "exists"
    /\ ~Parsable(instance[h].chunks_info)
    /\ pc' = [pc EXCEPT ![h] = "done"]
    /\ UNCHANGED <<encodings, nextId, encoding_status, hls, chunk_files, instance,
                   complete, chunks_paths, encoding, who, overlap, arg, ret,
                   artifacts>>

\* except Exception: instance.delete(); return False
ParseFails(h) ==
    /\ pc[h] = "exists"
    /\ ~Parsable(instance[h].chunks_info)
    /\ encodings' = DeleteRows(encodings, {instance[h]})
    /\ PostDelete(DeleteRows(encodings, {instance[h]}), {instance[h]})
    /\ pc' = [pc EXCEPT ![h] = "done"]
    /\ UNCHANGED <<nextId, chunk_files, instance, complete, chunks_paths, encoding,
                   who, overlap, arg, ret>>

NextBadManifest ==
    \E h \in Handlers :
        \/ Report(h)
        \/ ParseFails(h)
        \/ FailLoad(h)
        \/ FailInsert(h)
        \/ CollectWho(h)
        \/ DeleteWho(h)

SpecBadManifest == InitBadManifest /\ [][NextBadManifest]_vars

(***************************************************************************)
(* The same reports, with another media in the table: it has a finished    *)
(* job and a chunk set of the active profile, and its chunk rows carry the  *)
(* same chunks_info.                                                       *)
(***************************************************************************)
OtherMediaRows(active) ==
    {[Encoding(Len(ChunkedProfiles) * (NumBoundaries + 1) + b, ChunkedProfiles[active],
               "running", FALSE, TRUE, b, Manifest) EXCEPT !.media = AnotherMedia] :
        b \in 1..NumBoundaries}
    \cup {[Encoding(Len(ChunkedProfiles) * (NumBoundaries + 1) + NumBoundaries + 1,
                    ChunkedProfiles[active], "success", TRUE, FALSE, 0, "")
              EXCEPT !.media = AnotherMedia]}

InitFrame ==
    /\ \E active \in AllProfiles, others \in {{}, AllProfiles}, old \in SUBSET AllProfiles,
          st \in {"success", "fail"} :
          LET rows == InitRows({active} \cup others, old, st) \cup OtherMediaRows(active)
          IN /\ encodings = rows
             /\ encoding_status = SetEncodingStatus(rows)
             /\ artifacts = Stored(rows)
             /\ InitLocals(active)
    /\ nextId = Len(ChunkedProfiles) * (NumBoundaries + 1) + NumBoundaries + 2
    /\ hls = 0
    /\ chunk_files = TRUE
    /\ overlap = FALSE
    /\ arg = NoArg
    /\ ret = <<>>

SpecFrame == InitFrame /\ [][Next]_vars

(***************************************************************************)
(* The life cycle of whole-file (non-chunk) jobs: Media.encode creates the *)
(* row, the worker saves it as it goes, it may be deleted.  Each save and  *)
(* each delete runs its receiver to the end in the same step.  arg.saves   *)
(* counts the worker's saves so far.                                       *)
(***************************************************************************)
InitJobs ==
    /\ encodings = {}
    /\ encoding_status = "pending"
    /\ nextId = 1
    /\ hls = 0
    /\ chunk_files = TRUE
    /\ InitLocals(1)
    /\ overlap = FALSE
    /\ artifacts = {}
    /\ arg = [fn |-> "jobs", saves |-> 0]
    /\ ret = <<>>

\* Media.encode: encoding = Encoding(media=self, profile=profile); encoding.save()
CreateJob(p) ==
    /\ nextId <= MaxJobs
    /\ LET job == Encoding(nextId, p, "pending", FALSE, FALSE, 0, "")
       IN /\ encodings' = Save(encodings, job)
          /\ NonChunkSaved(Save(encodings, job), job)
    /\ nextId' = nextId + 1
    /\ UNCHANGED <<chunk_files, pc, instance, complete, chunks_paths, encoding, who,
                   overlap, arg, ret,
                   artifacts>>

\* the worker saves a whole-file job: a new status, or the same status with
\* another field changed (the artifact attached)
SaveJob(e, st, file) ==
    /\ e \in encodings
    /\ ~e.chunk
    /\ arg.saves < MaxSaves
    /\ LET job == [e EXCEPT !.status = st, !.media_file = file]
       IN /\ encodings' = Save(encodings, job)
          /\ NonChunkSaved(Save(encodings, job), job)
    /\ arg' = [arg EXCEPT !.saves = arg.saves + 1]
    /\ artifacts' = IF file THEN artifacts \cup {e.id} ELSE artifacts
    /\ UNCHANGED <<nextId, chunk_files, pc, instance, complete, chunks_paths, encoding,
                   who, overlap, ret>>

\* encoding.delete() of a whole-file job, then encoding_file_delete
DeleteJob(e) ==
    /\ e \in encodings
    /\ ~e.chunk
    /\ encodings' = DeleteRows(encodings, {e})
    /\ PostDelete(DeleteRows(encodings, {e}), {e})
    /\ UNCHANGED <<nextId, chunk_files, pc, instance, complete, chunks_paths, encoding,
                   who, overlap, arg, ret>>

NextJobs ==
    \/ \E p \in Profiles : CreateJob(p)
    \/ \E e \in encodings, st \in MEDIA_ENCODING_STATUS, file \in BOOLEAN : SaveJob(e, st, file)
    \/ \E e \in encodings : DeleteJob(e)

SpecJobs == InitJobs /\ [][NextJobs]_vars

(***************************************************************************)
(* Re-encode.  The encode task (tasks.encode_media, which Media.encode     *)
(* enqueues) is not part of files/models.py; what it does to the older     *)
(* jobs of its (media, profile) pair is taken from the specification:      *)
(* "older successes are deleted on new success".  The rows it saves and    *)
(* deletes go through the receivers of files/models.py.                    *)
(***************************************************************************)
\* faulty variant of SupersedeOlder: nothing is superseded
SupersedeNone(rows, job) == {}

\* the older whole-file success jobs of the job's (media, profile) pair
SupersedeOlder(rows, job) ==
    {e \in rows : ~e.chunk /\ e.profile = job.profile /\ e.status = "success"
                              /\ e.id # job.id}

\* faulty variant of WorkerReport: a report is taken whatever the job's status
WorkerReportAnyStatus(e, st) == SaveJob(e, st, FALSE)

\* the task reports running for a pending job, fail for a running one
\* ("States: pending -> running -> {success, fail}")
WorkerReport(e, st) ==
    /\ \/ e.status = "pending" /\ st = "running"
       \/ e.status = "running" /\ st = "fail"
    /\ SaveJob(e, st, FALSE)

\* the task ends a running job with success: the older successes of the pair are deleted
\* (encoding_file_delete runs for each), the job is saved with its artifact
\* (encoding_file_save runs)
WorkerSuccess(e) ==
    /\ e \in encodings
    /\ ~e.chunk
    /\ e.status = "running"
    /\ LET job == [e EXCEPT !.status = "success", !.media_file = TRUE]
           rows == Save(DeleteRows(encodings, SupersedeOlder(encodings, job)), job)
       IN /\ encodings' = rows
          /\ NonChunkSaved(rows, job)
    /\ artifacts' = (artifacts \ Stored(SupersedeOlder(encodings, e))) \cup {e.id}
    /\ UNCHANGED <<nextId, chunk_files, pc, instance, complete, chunks_paths, encoding,
                   who, overlap, arg, ret>>

NextReencode ==
    \/ \E p \in Profiles : CreateJob(p)
    \/ \E e \in encodings, st \in {"running", "fail"} : WorkerReport(e, st)
    \/ \E e \in encodings : WorkerSuccess(e)

SpecReencode == InitJobs /\ [][NextReencode]_vars

(***************************************************************************)
(* The functions applied on their own, to inputs drawn from bounded sets.  *)
(***************************************************************************)
\* a job of the table as far as Media.set_encoding_status reads it; a gif
\* profile is never encoded in chunks (Media.encode)
JobShapes ==
    {s \in [profile : Profiles, status : MEDIA_ENCODING_STATUS, chunk : BOOLEAN] :
        ~(s.profile = "gif" /\ s.chunk)}

\* a row as far as the completeness check reads it: a sibling of the reporting
\* chunk, or a row the "chunks" queryset must leave out
ChunkShapes ==
    [profile : {"mp4_h264"}, chunks_info : {Manifest}, chunk : {TRUE},
     chunk_file_path : 1..NumBoundaries, media_file : BOOLEAN]
    \cup {[profile |-> "mp4_h265", chunks_info |-> Manifest, chunk |-> TRUE,
           chunk_file_path |-> 1, media_file |-> FALSE],
          [profile |-> "mp4_h264", chunks_info |-> "other", chunk |-> TRUE,
           chunk_file_path |-> 1, media_file |-> FALSE],
          [profile |-> "mp4_h264", chunks_info |-> Manifest, chunk |-> FALSE,
           chunk_file_path |-> 1, media_file |-> FALSE]}

Tables(shapes) == UNION {[1..n -> shapes] : n \in 0..MaxJobs}

StatusRows(f) ==
    {Encoding(i, f[i].profile, f[i].status, FALSE, f[i].chunk, 0, "") : i \in DOMAIN f}

ChunkRows(f) ==
    {Encoding(i, f[i].profile, "success", f[i].media_file, f[i].chunk,
              f[i].chunk_file_path, f[i].chunks_info) : i \in DOMAIN f}

(***************************************************************************)
(* Media.encode.  Its result is the list of what it does, in order: the    *)
(* Encoding rows it saves and the units of work it hands to the queue.  A  *)
(* profile is named by its place in the list; the first row saved gets id  *)
(* 1 (before the save a row has no id, written 0).                         *)
(***************************************************************************)
\* settings.CHUNKIZE_VIDEO_DURATION, in seconds
CHUNKIZE_VIDEO_DURATION == 3600

\* settings.MINIMUM_RESOLUTIONS_TO_ENCODE
MINIMUM_RESOLUTIONS_TO_ENCODE == {240, 360}

\* EncodeProfile rows as far as encode reads them; resolution 0 stands for
\* null, which only a gif profile may have (a comparison with null raises)
ProfileShapes ==
    [extension : {"mp4", "webm"}, resolution : {240, 720}]
    \cup [extension : {"gif"}, resolution : {0, 240}]

ProfileLists == UNION {[1..n -> ProfileShapes] : n \in 0..MaxProfiles}

\* Media.duration around the threshold
Durations ==
    {CHUNKIZE_VIDEO_DURATION - 1, CHUNKIZE_VIDEO_DURATION, CHUNKIZE_VIDEO_DURATION + 1}

\* Media.video_height: 0 (falsy), below every resolution, between two
Heights == {0, 144, 480}

\* faulty variant of ShouldChunk: the threshold itself is chunked
ShouldChunkAtThreshold(duration, chunkize) ==
    duration >= CHUNKIZE_VIDEO_DURATION /\ chunkize

\* if self.duration > settings.CHUNKIZE_VIDEO_DURATION and chunkize
ShouldChunk(duration, chunkize) ==
    duration > CHUNKIZE_VIDEO_DURATION /\ chunkize

\* faulty variant of Skipped: the minimum resolutions are skipped too
SkippedBelowHeight(profile, video_height) ==
    /\ profile.extension # "gif"
    /\ video_height # 0 /\ video_height < profile.resolution

\* the "continue" of the whole-file loop
Skipped(profile, video_height) ==
    /\ profile.extension # "gif"
    /\ video_height # 0 /\ video_height < profile.resolution
    /\ profile.resolution \notin MINIMUM_RESOLUTIONS_TO_ENCODE

\* priority = 9 if profile.resolution in MINIMUM_RESOLUTIONS_TO_ENCODE else 0
Priority(profile) ==
    IF profile.resolution \in MINIMUM_RESOLUTIONS_TO_ENCODE THEN 9 ELSE 0

\* encoding.save() of Encoding(media=self, profile=profile)
SaveEvent(id, i) ==
    [kind |-> "save", row |-> Encoding(id, i, "pending", FALSE, FALSE, 0, "")]

\* tasks.encode_media.apply_async(args=[token, profile.id, encoding.id, url], priority=...)
EnqueueEvent(id, i, priority) ==
    [kind |-> "encode_media", profile |-> i, id |-> id, priority |-> priority]

\* faulty variant of Dispatch: the work is enqueued before the row is saved
DispatchEnqueueFirst(id, i, priority) ==
    <<EnqueueEvent(0, i, priority), SaveEvent(id, i)>>

\* one job: the row is saved, then the work is enqueued with the row's id
Dispatch(id, i, priority) ==
    <<SaveEvent(id, i), EnqueueEvent(id, i, priority)>>

\* faulty variant of GifJobs: a whole-file job for every profile
RECURSIVE GifJobsAll(_, _, _)
GifJobsAll(profiles, i, id) ==
    IF i > Len(profiles) THEN <<>>
    ELSE Dispatch(id, i, 0) \o GifJobsAll(profiles, i + 1, id + 1)

\* the loop of the chunked branch: a whole-file job per gif profile
RECURSIVE GifJobs(_, _, _)
GifJobs(profiles, i, id) ==
    IF i > Len(profiles) THEN <<>>
    ELSE IF profiles[i].extension = "gif"
         THEN Dispatch(id, i, 0) \o GifJobs(profiles, i + 1, id + 1)
         ELSE GifJobs(profiles, i + 1, id)

\* faulty variant of ProfileIds: no profile is removed from the list
ProfileIdsAll(profiles, i) == [k \in 1..Len(profiles) |-> k]

\* profile_ids = [p.id for p in profiles], after the gif profiles were removed
RECURSIVE ProfileIds(_, _)
ProfileIds(profiles, i) ==
    IF i > Len(profiles) THEN <<>>
    ELSE IF profiles[i].extension = "gif"
         THEN ProfileIds(profiles, i + 1)
         ELSE <<i>> \o ProfileIds(profiles, i + 1)

\* tasks.chunkize_media.delay(token, profile_ids, force=force)
ChunkizeEvent(profile_ids) == [kind |-> "chunkize_media", profile_ids |-> profile_ids]

\* the loop of the whole-file branch
RECURSIVE WholeFileJobs(_, _, _, _)
WholeFileJobs(profiles, i, id, video_height) ==
    IF i > Len(profiles) THEN <<>>
    ELSE IF Skipped(profiles[i], video_height)
         THEN WholeFileJobs(profiles, i + 1, id, video_height)
         ELSE Dispatch(id, i, Priority(profiles[i]))
              \o WholeFileJobs(profiles, i + 1, id + 1, video_height)

Encode(profiles, duration, video_height, chunkize) ==
    IF ShouldChunk(duration, chunkize)
    THEN GifJobs(profiles, 1, 1) \o <<ChunkizeEvent(ProfileIds(profiles, 1))>>
    ELSE WholeFileJobs(profiles, 1, 1, video_height)

\* the places in a result of the units of work handed to the queue
Enqueues(events) ==
    {k \in 1..Len(events) : events[k].kind \in {"encode_media", "chunkize_media"}}

\* Media.encode when its n-th apply_async/delay raises (the broker cannot be
\* reached): nothing in encode catches it, so encode ends there and what it
\* did before stays done
EncodeRaises(profiles, duration, video_height, chunkize, n) ==
    LET events == Encode(profiles, duration, video_height, chunkize)
        places == Enqueues(events)
    IN IF n > Cardinality(places) THEN events
       ELSE SubSeq(events, 1,
                   (CHOOSE k \in places : Cardinality({j \in places : j <= k}) = n) - 1)

\* a job as far as post_encode_actions reads it
HookJobs == [profile : ConfigurableProfiles, status : MEDIA_ENCODING_STATUS]

\* ---------------------------------------------------------------------
\* Media.media_init and Media.set_media_type: what a new file becomes

\* MEDIA_TYPES_SUPPORTED, and the empty type of a file that is none of them
MediaTypes == {"video", "image", "pdf", "audio", ""}

\* helpers.get_file_type(path): None, one of the three kinds the code names,
\* or any other kind
FileKinds == {"none", "image", "pdf", "audio", "other"}

\* video_duration / audio duration as the probe reports it, in tenths of a
\* second, around the chunking threshold
ProbedDurations ==
    {10 * CHUNKIZE_VIDEO_DURATION - 5, 10 * CHUNKIZE_VIDEO_DURATION,
     10 * CHUNKIZE_VIDEO_DURATION + 5, 10 * CHUNKIZE_VIDEO_DURATION + 15}

\* helpers.media_file_info(path): a failure marker, or a classification with
\* the metadata
ProbeResults ==
    {[fail |-> TRUE, is_video |-> FALSE, is_audio |-> FALSE, duration |-> 0,
      video_height |-> 0]}
    \cup [fail : {FALSE}, is_video : BOOLEAN, is_audio : BOOLEAN,
          duration : ProbedDurations, video_height : Heights]

\* settings.ALLOWED_MEDIA_UPLOAD_TYPES
AllowedTypeSets == {{"video"}, {"video", "image", "pdf", "audio"}}

\* is_media_allowed_type(media): a file of no supported type is never allowed
IsMediaAllowedType(media_type, allowed) == media_type \in allowed

\* int(round(float(d))): to the nearest second, a half to the even one
RoundHalfEven(tenths) ==
    LET q == tenths \div 10
        r == tenths % 10
    IN IF r < 5 THEN q
       ELSE IF r > 5 THEN q + 1
       ELSE IF q % 2 = 0 THEN q ELSE q + 1

\* int(float(d)): the whole seconds
Truncated(tenths) == tenths \div 10

\* the first lines of set_media_type: the kind of the file decides the type,
\* no kind leaves the type the media has
Classified(kind, media_type) ==
    IF kind = "none" THEN media_type
    ELSE IF kind \in {"image", "pdf", "audio"} THEN kind
    ELSE "video"

\* faulty variant of Probed: an unrecognized file keeps its type and status
ProbedKeepType(media_type, probe) ==
    IF probe.is_video
    THEN [media_type |-> "video", encoding_status |-> "pending",
          duration |-> RoundHalfEven(probe.duration), video_height |-> probe.video_height]
    ELSE IF probe.is_audio
    THEN [media_type |-> "audio", encoding_status |-> "success",
          duration |-> Truncated(probe.duration), video_height |-> 1]
    ELSE [media_type |-> media_type, encoding_status |-> "pending",
          duration |-> 0, video_height |-> 1]

\* the else branch of set_media_type: ret = helpers.media_file_info(path) of a
\* media created with the field defaults (encoding_status pending, duration 0,
\* video_height 1)
Probed(media_type, probe) ==
    LET first == IF probe.fail
                 THEN [media_type |-> "", encoding_status |-> "fail"]
                 ELSE IF probe.is_video \/ probe.is_audio
                 THEN [media_type |-> media_type, encoding_status |-> "pending"]
                 ELSE [media_type |-> "", encoding_status |-> "fail"]
    IN IF probe.is_video
       THEN [media_type |-> "video", encoding_status |-> first.encoding_status,
             duration |-> RoundHalfEven(probe.duration),
             video_height |-> probe.video_height]
       ELSE IF probe.is_audio
       THEN [media_type |-> "audio", encoding_status |-> "success",
             duration |-> Truncated(probe.duration), video_height |-> 1]
       ELSE [media_type |-> first.media_type, encoding_status |-> first.encoding_status,
             duration |-> 0, video_height |-> 1]

\* faulty variant of SetMediaType: only an image is a success at once
SetMediaTypeImageOnly(kind, media_type, probe) ==
    IF Classified(kind, media_type) = "image"
    THEN [media_type |-> "image", encoding_status |-> "success",
          duration |-> 0, video_height |-> 1]
    ELSE Probed(Classified(kind, media_type), probe)

\* Media.set_media_type
SetMediaType(kind, media_type, probe) ==
    IF Classified(kind, media_type) \in {"image", "pdf"}
    THEN [media_type |-> Classified(kind, media_type), encoding_status |-> "success",
          duration |-> 0, video_height |-> 1]
    ELSE Probed(Classified(kind, media_type), probe)

\* what media_init does besides the jobs: the file removed, the thumbnail,
\* the sprite
StepEvent(kind) == [kind |-> kind]

\* Media.media_init of a media in the given state with the given active
\* profiles: what it returns, what it leaves in the media and what it does
MediaInit(kind, media_type, probe, allowed, state, profiles) ==
    LET media == SetMediaType(kind, media_type, probe)
    IN IF ~IsMediaAllowedType(media.media_type, allowed)
       THEN [returned |-> FALSE, media |-> media,
             state |-> IF state = "public" THEN "unlisted" ELSE state,
             events |-> <<StepEvent("rm_file")>>]
       ELSE IF media.media_type = "video"
       THEN [returned |-> TRUE, media |-> media, state |-> state,
             events |-> <<StepEvent("set_thumbnail")>>
                        \o Encode(profiles, media.duration, media.video_height, TRUE)
                        \o <<StepEvent("produce_sprite")>>]
       ELSE IF media.media_type = "image"
       THEN [returned |-> TRUE, media |-> media, state |-> state,
             events |-> <<StepEvent("set_thumbnail")>>]
       ELSE [returned |-> TRUE, media |-> media, state |-> state, events |-> <<>>]

\* the active profiles of a media_init: none or one
InitProfileLists == {profiles \in ProfileLists : Len(profiles) <= 1}

InitPure ==
    /\ encodings = {}
    /\ encoding_status = "pending"
    /\ nextId = 1
    /\ hls = 0
    /\ chunk_files = TRUE
    /\ InitLocals(1)
    /\ overlap = FALSE
    /\ artifacts = {}
    /\ ret = <<>>
    /\ \/ \E f \in Tables(JobShapes) :
             arg = [fn |-> "set_encoding_status", rows |-> StatusRows(f)]
       \/ \E f \in Tables(ChunkShapes) :
             arg = [fn |-> "complete", rows |-> ChunkRows(f)]
       \/ \E job \in HookJobs, action \in {"add", "delete"} :
             arg = [fn |-> "post_encode_actions", job |-> job, action |-> action]
       \/ \E stdout \in ConcatOutcomes : arg = [fn |-> "assemble", stdout |-> stdout]
       \/ \E profiles \in ProfileLists, duration \in Durations, video_height \in Heights,
             chunkize \in BOOLEAN :
             arg = [fn |-> "encode", profiles |-> profiles, duration |-> duration,
                    video_height |-> video_height, chunkize |-> chunkize]
       \/ \E profiles \in ProfileLists, duration \in Durations, video_height \in Heights,
             chunkize \in BOOLEAN, n \in 1..MaxProfiles :
             arg = [fn |-> "encode_raises", profiles |-> profiles, duration |-> duration,
                    video_height |-> video_height, chunkize |-> chunkize, n |-> n]
       \/ \E kind \in FileKinds, media_type \in MediaTypes, probe \in ProbeResults,
             allowed \in AllowedTypeSets, state \in {"public", "private"},
             profiles \in InitProfileLists :
             arg = [fn |-> "media_init", kind |-> kind, media_type |-> media_type,
                    probe |-> probe, allowed |-> allowed, state |-> state,
                    profiles |-> profiles]

CallSetEncodingStatus ==
    /\ arg.fn = "set_encoding_status"
    /\ ret = <<>>
    /\ ret' = <<SetEncodingStatus(arg.rows)>>
    /\ UNCHANGED <<encodings, nextId, encoding_status, hls, chunk_files, pc, instance,
                   complete, chunks_paths, encoding, who, overlap, arg,
                   artifacts>>

CallCompleteCheck ==
    /\ arg.fn = "complete"
    /\ ret = <<>>
    /\ ret' = <<CompleteCheck(orig_chunks, arg.rows, instance[1])>>
    /\ UNCHANGED <<encodings, nextId, encoding_status, hls, chunk_files, pc, instance,
                   complete, chunks_paths, encoding, who, overlap, arg,
                   artifacts>>

\* post_encode_actions(encoding, action): whether it calls tasks.create_hls
CallPostEncodeActions ==
    /\ arg.fn = "post_encode_actions"
    /\ ret = <<>>
    /\ ret' = <<CreateHls(arg.job, arg.action)>>
    /\ UNCHANGED <<encodings, nextId, encoding_status, hls, chunk_files, pc, instance,
                   complete, chunks_paths, encoding, who, overlap, arg,
                   artifacts>>

\* media.encode(profiles, chunkize=chunkize)
CallEncode ==
    /\ arg.fn = "encode"
    /\ ret = <<>>
    /\ ret' = <<Encode(arg.profiles, arg.duration, arg.video_height, arg.chunkize)>>
    /\ UNCHANGED <<encodings, nextId, encoding_status, hls, chunk_files, pc, instance,
                   complete, chunks_paths, encoding, who, overlap, arg,
                   artifacts>>

\* media.encode(profiles, chunkize=chunkize) with a broker that fails
CallEncodeRaises ==
    /\ arg.fn = "encode_raises"
    /\ ret = <<>>
    /\ ret' = <<EncodeRaises(arg.profiles, arg.duration, arg.video_height, arg.chunkize,
                             arg.n)>>
    /\ UNCHANGED <<encodings, nextId, encoding_status, hls, chunk_files, pc, instance,
                   complete, chunks_paths, encoding, who, overlap, arg,
                   artifacts>>

\* post_save of a created Media: instance.media_init()
CallMediaInit ==
    /\ arg.fn = "media_init"
    /\ ret = <<>>
    /\ ret' = <<MediaInit(arg.kind, arg.media_type, arg.probe, arg.allowed, arg.state,
                          arg.profiles)>>
    /\ UNCHANGED <<encodings, nextId, encoding_status, hls, chunk_files, pc, instance,
                   complete, chunks_paths, encoding, who, overlap, arg,
                   artifacts>>

\* the job encoding_file_save builds from a complete chunk set
CallAssemble ==
    /\ arg.fn = "assemble"
    /\ ret = <<>>
    /\ ret' = <<AssembledStatus(arg.stdout)>>
    /\ UNCHANGED <<encodings, nextId, encoding_status, hls, chunk_files, pc, instance,
                   complete, chunks_paths, encoding, who, overlap, arg,
                   artifacts>>

NextPure ==
    \/ CallAssemble
    \/ CallSetEncodingStatus
    \/ CallCompleteCheck
    \/ CallPostEncodeActions
    \/ CallEncode
    \/ CallEncodeRaises
    \/ CallMediaInit

SpecPure == InitPure /\ [][NextPure]_vars

(***************************************************************************)
(* Encoding.set_progress, called again and again on one job.  arg holds    *)
(* the job's progress field (progress), the value in its row (stored), and *)
(* of the last call the field before it (before) and its argument (p).     *)
(***************************************************************************)
\* the values handed to set_progress: Python ints, bools (a bool is an int:
\* True is 1), and values that are no int
ProgressInputs ==
    [kind : {"int"}, value : {0 - 1, 0, 1, 50, 99, 100, 101}]
    \cup [kind : {"bool"}, value : {0, 1}]
    \cup [kind : {"float", "str", "none"}, value : {50}]

\* faulty variant of ProgressAccepted: no upper end
ProgressAcceptedAbove(p) ==
    p.kind \in {"int", "bool"} /\ 0 <= p.value

\* isinstance(progress, int) and 0 <= progress <= 100
ProgressAccepted(p) ==
    p.kind \in {"int", "bool"} /\ 0 <= p.value /\ p.value <= 100

InitProgress ==
    /\ encodings = {}
    /\ encoding_status = "pending"
    /\ nextId = 1
    /\ hls = 0
    /\ chunk_files = TRUE
    /\ InitLocals(1)
    /\ overlap = FALSE
    /\ artifacts = {}
    /\ arg = [fn |-> "set_progress", progress |-> 0, stored |-> 0, before |-> 0,
              p |-> [kind |-> "none", value |-> 50]]
    /\ ret = <<>>

\* encoding.set_progress(p, commit)
SetProgress(p, commit) ==
    /\ arg' = [arg EXCEPT !.before = arg.progress,
                          !.p = p,
                          !.progress = IF ProgressAccepted(p) THEN p.value ELSE @,
                          !.stored = IF ProgressAccepted(p) /\ commit THEN p.value ELSE @]
    /\ ret' = <<ProgressAccepted(p)>>
    /\ UNCHANGED <<encodings, nextId, encoding_status, hls, chunk_files, pc, instance,
                   complete, chunks_paths, encoding, who, overlap,
                   artifacts>>

NextProgress == \E p \in ProgressInputs, commit \in BOOLEAN : SetProgress(p, commit)

SpecProgress == InitProgress /\ [][NextProgress]_vars

(***************************************************************************)
(* Properties.                                                             *)
(***************************************************************************)
Finished(h) == pc[h] \in {"done", "raised"}

\* every chunk of the set has reported and every handler has ended
AllDone == \A h \in Handlers : Finished(h)

\* no handler is running
Quiescent == \A h \in Handlers : ~Busy(h)

\* the profile of the chunk set that is completing
ActiveProfile == instance[1].profile

\* the non-chunk jobs with status success of a profile
FinalSuccess(p) == {e \in encodings : e.profile = p /\ ~e.chunk /\ e.status = "success"}

\* every chunk of the set reported success with a stored artifact
AllSucceeded == \A h \in Handlers : instance[h].status = "success" /\ instance[h].media_file

\* C1: whenever no completion handler is running, every (media, profile) pair
\* holds at most one non-chunk job with status success, whatever the
\* interleaving of the handlers was.
C1_AtMostOneFinalSuccess ==
    Quiescent => \A p \in Profiles : Cardinality(FinalSuccess(p)) <= 1

\* two handlers overlapped, both assembled a final job, and one job is left
C1_Witness ==
    /\ AllDone
    /\ overlap
    /\ Cardinality({h \in Handlers : encoding[h] # 0 /\ instance[h].status = "success"}) >= 2
    /\ Cardinality(FinalSuccess(ActiveProfile)) = 1

\* C2: if every chunk reported success with an artifact, then once all
\* handlers have finished exactly one non-chunk success job exists for the
\* (media, profile), for every interleaving.
C2_ExactlyOnce ==
    (AllDone /\ AllSucceeded) => Cardinality(FinalSuccess(ActiveProfile)) = 1

\* the handlers that are between their completeness check and the end of
\* their supersede / discard step
InCoordinator ==
    {h \in Handlers : pc[h] \in {"insert", "attach", "recount", "collect", "delete", "discard"}}

\* C3: no two completion handlers of one (media, profile, chunk set) are at the
\* same time between their completeness check and their supersede/discard step.
C3_MutualExclusion == Cardinality(InCoordinator) <= 1

\* the handlers of the chunks that reported fail and have ended
FailedDone == {h \in Handlers : instance[h].status = "fail" /\ Finished(h)}

\* C4: once the handler of a chunk that reported fail has finished, no
\* Encoding with status success exists for that (media, profile).
C4_NoSuccessAfterFail ==
    \A h \in FailedDone :
        ~(\E e \in encodings : e.profile = instance[h].profile /\ e.status = "success")

\* C5: the handler of every chunk that reported fail has synthesized a
\* non-chunk job with status fail, whether or not the chunks have artifacts.
C5_FailJobSynthesized ==
    \A h \in FailedDone : encoding[h] # 0

\* C6: when one chunk of the set failed and all the others succeeded (with
\* their artifacts stored), then
\* after all handlers finished the stored encoding_status is fail, provided no
\* other profile holds a non-chunk mp4 job with status success.
C6_FailPropagates ==
    (/\ AllDone
     /\ Cardinality({h \in Handlers : instance[h].status = "fail"}) = 1
     /\ \A h \in Handlers : instance[h].status = "success" => instance[h].media_file
     /\ ~(\E e \in encodings : /\ e.profile # ActiveProfile
                                /\ Extension(e.profile) = "mp4"
                                /\ ~e.chunk /\ e.status = "success"))
    => encoding_status = "fail"

\* C7: when all chunks succeed with artifacts one after another, then after the
\* last handler exactly one non-chunk success job is left for the (media,
\* profile), and if no job of any profile references the manifest the chunk
\* source files are gone.
C7_SequentialCompletion ==
    (AllDone /\ ~overlap /\ AllSucceeded)
    => /\ Cardinality(FinalSuccess(ActiveProfile)) = 1
       /\ NoReference(encodings, instance[1]) => ~chunk_files

\* a sequential run has ended with one final job and the chunk files removed
C7_Witness ==
    /\ AllDone /\ ~overlap /\ AllSucceeded
    /\ Cardinality(FinalSuccess(ActiveProfile)) = 1
    /\ NoReference(encodings, instance[1])
    /\ ~chunk_files

\* C8: for one chunk set of an h264 profile that completes successfully,
\* create_hls is invoked exactly once in total.
C8_PackagingOnce ==
    (AllDone /\ ~overlap /\ AllSucceeded /\ Codec(ActiveProfile) = "h264") => hls = 1

\* the siblings of the reporting chunk among the drawn rows
Siblings ==
    {e \in arg.rows : /\ e.profile = instance[1].profile
                      /\ e.chunks_info = instance[1].chunks_info
                      /\ e.chunk}

\* C9: the completeness check is false whenever some boundary of the manifest
\* has no sibling row or some sibling row has no artifact, and true otherwise,
\* for every number of sibling rows.
C9_Completeness ==
    (arg.fn = "complete" /\ ret # <<>>)
    => (ret[1] <=> /\ \A b \in 1..NumBoundaries : \E e \in Siblings : e.chunk_file_path = b
                   /\ \A e \in Siblings : e.media_file)

\* more siblings than boundaries, every boundary present, one sibling without
\* an artifact: judged incomplete
C9_Witness ==
    /\ arg.fn = "complete" /\ ret = <<FALSE>>
    /\ Cardinality(Siblings) > NumBoundaries
    /\ \A b \in 1..NumBoundaries : \E e \in Siblings : e.chunk_file_path = b
    /\ \E e \in Siblings : ~e.media_file

\* the statuses of the non-chunk mp4 jobs among the drawn rows
Mp4Statuses ==
    {e.status : e \in {x \in arg.rows : x.profile \in {"mp4_h264", "mp4_h265"} /\ ~x.chunk}}

\* C10: set_encoding_status gives pending when the media has no non-chunk mp4
\* job, success when one of them is success, else running when one of them is
\* running, else fail; chunk jobs and gif/webm jobs do not count.
C10_Resolver ==
    (arg.fn = "set_encoding_status" /\ ret # <<>>)
    => /\ Mp4Statuses = {} => ret[1] = "pending"
       /\ "success" \in Mp4Statuses => ret[1] = "success"
       /\ ("success" \notin Mp4Statuses /\ "running" \in Mp4Statuses) => ret[1] = "running"
       /\ (Mp4Statuses # {} /\ Mp4Statuses \cap {"success", "running"} = {})
             => ret[1] = "fail"

\* jobs {fail, success, running} resolve to success
C10_Witness ==
    /\ arg.fn = "set_encoding_status"
    /\ Mp4Statuses = {"fail", "success", "running"}
    /\ ret = <<"success">>

\* C11: whenever no handler is in progress, the stored encoding_status of the
\* media is the resolver's result on the current jobs: it follows every
\* creation, every transition (to running too) and every deletion of a job.
C11_StatusIsResolver == encoding_status = SetEncodingStatus(encodings)

\* a save of a whole-file job that is success or fail and keeps its status
SameStatusSave ==
    \E e \in encodings : \E f \in encodings' :
        /\ e.id = f.id
        /\ ~e.chunk
        /\ e.status \in {"success", "fail"}
        /\ f.status = e.status
        /\ f # e

\* C12: a save of a whole-file job that does not change its status runs no
\* post-processing: no packaging is scheduled by it.
C12_OncePerTransition == [][SameStatusSave => hls' = hls]_vars

\* C13: post_encode_actions schedules packaging only for a job with status
\* success whose profile is an mp4 profile with codec h264, on an "add" call:
\* never on a delete, for a failed job, or for a profile that is not mp4.
C13_PackagingOnlyMp4H264 ==
    (arg.fn = "post_encode_actions" /\ ret # <<>> /\ ret[1]) =>
        /\ arg.job.status = "success"
        /\ Extension(arg.job.profile) = "mp4"
        /\ Codec(arg.job.profile) = "h264"
        /\ arg.action = "add"

\* the whole-file success jobs of profile p
WholeFileSuccess(p) ==
    {e \in encodings : ~e.chunk /\ e.profile = p /\ e.status = "success"}

\* C14: when a new whole-file job of a (media, profile) pair reaches success
\* while an older whole-file success of the pair exists, the older one is
\* deleted: at most one whole-file success job holds for the pair.
C14_SupersedeOnReencode ==
    \A p \in Profiles : Cardinality(WholeFileSuccess(p)) <= 1

\* the second job of a pair has succeeded and the first, a success before it,
\* is gone
C14_Witness ==
    /\ hls = 2
    /\ \E e \in encodings : e.id = 2 /\ e.status = "success"
    /\ \A e \in encodings : e.id # 1

(***************************************************************************)
(* Media.encode, read off its result.                                      *)
(***************************************************************************)
EncodeApplied == arg.fn = "encode" /\ ret # <<>>

Events == ret[1]

\* the places in the result of the chunking requests, of the enqueued jobs
\* and of the saved rows
Requests == {k \in 1..Len(Events) : Events[k].kind = "chunkize_media"}
Jobs == {k \in 1..Len(Events) : Events[k].kind = "encode_media"}
Rows == {k \in 1..Len(Events) : Events[k].kind = "save"}

\* the profiles of the input, by place
Given == 1..Len(arg.profiles)
Gif(i) == arg.profiles[i].extension = "gif"

JobsOf(i) == {k \in Jobs : Events[k].profile = i}
Requested(i) ==
    \E k \in Requests : \E j \in 1..Len(Events[k].profile_ids) : Events[k].profile_ids[j] = i

\* every enqueued job is a whole-file job: its row is not a chunk
AllWholeFile ==
    /\ \A k \in Rows : ~Events[k].row.chunk
    /\ \A k \in Jobs : \E r \in Rows : Events[r].row.id = Events[k].id

\* C15: encode emits a chunking request if and only if duration is above
\* CHUNKIZE_VIDEO_DURATION and chunkize is on; at or below the threshold there
\* is no chunking request, no chunk job, and every job is a whole-file job.
C15_ChunkIffAboveThreshold ==
    EncodeApplied =>
        /\ (Requests # {}) <=> (arg.duration > CHUNKIZE_VIDEO_DURATION /\ arg.chunkize)
        /\ arg.duration <= CHUNKIZE_VIDEO_DURATION => (Requests = {} /\ AllWholeFile)

\* encode ran on a source whose duration is the threshold itself, with
\* chunkize on, and dispatched jobs
C15_Witness ==
    /\ EncodeApplied
    /\ arg.duration = CHUNKIZE_VIDEO_DURATION /\ arg.chunkize
    /\ Jobs # {}
    /\ Requests = {}

\* C16: for every duration and profile list, no gif profile is in a chunking
\* request, and every row encode creates for a gif profile has chunk = false.
C16_GifNeverChunked ==
    EncodeApplied =>
        /\ \A i \in Given : Gif(i) => ~Requested(i)
        /\ \A k \in Rows : Gif(Events[k].row.profile) => ~Events[k].row.chunk

\* encode ran above the threshold on a list with a gif and a non-gif profile
C16_Witness ==
    /\ EncodeApplied
    /\ Requests # {}
    /\ \E i, j \in Given : Gif(i) /\ ~Gif(j) /\ Requested(j) /\ JobsOf(i) # {}

\* what the claim C17 promises of a chunked run
ChunkedDispatch ==
    /\ \A i \in Given : Cardinality(JobsOf(i)) = (IF Gif(i) THEN 1 ELSE 0)
    /\ Cardinality(Requests) = 1
    /\ \A k \in Requests :
          /\ {Events[k].profile_ids[j] : j \in 1..Len(Events[k].profile_ids)}
                = {i \in Given : ~Gif(i)}
          /\ Len(Events[k].profile_ids) = Cardinality({i \in Given : ~Gif(i)})

\* C17 as stated: when duration is above the threshold, encode dispatches one
\* whole-file job per gif profile and one chunking request whose profile list
\* is exactly the non-gif profiles, and no whole-file job for a non-gif one.
C17_AboveThreshold ==
    (EncodeApplied /\ arg.duration > CHUNKIZE_VIDEO_DURATION) => ChunkedDispatch

\* C17, amended: the same when duration is above the threshold and chunkize
\* is on.
C17_AboveThresholdChunkize ==
    (EncodeApplied /\ arg.duration > CHUNKIZE_VIDEO_DURATION /\ arg.chunkize)
        => ChunkedDispatch

\* a chunked run on a list with two non-gif profiles and a gif profile
C17_Witness ==
    /\ EncodeApplied
    /\ arg.duration > CHUNKIZE_VIDEO_DURATION /\ arg.chunkize
    /\ \E i, j, k \in Given : i # j /\ ~Gif(i) /\ ~Gif(j) /\ Gif(k)

Dispatched(i) == JobsOf(i) # {} \/ Requested(i)

\* the selection rule of the claim C18
Selected(i) ==
    \/ Gif(i)
    \/ ~(arg.video_height < arg.profiles[i].resolution)
    \/ arg.profiles[i].resolution \in MINIMUM_RESOLUTIONS_TO_ENCODE

\* C18 as stated: a profile is dispatched (whole-file or in a chunking request)
\* if and only if it is gif, or the source height is not below its resolution,
\* or its resolution is a minimum resolution; below and above the threshold.
C18_Selection ==
    EncodeApplied => \A i \in Given : Dispatched(i) <=> Selected(i)

\* C18, amended: in a run that is not chunked a profile is dispatched if and
\* only if it is gif, or the source height is 0 or not below its resolution, or
\* its resolution is a minimum resolution; in a chunked run every profile is
\* dispatched, whatever the height.
C18_SelectionWholeFile ==
    EncodeApplied =>
        \A i \in Given :
            Dispatched(i) <=>
                \/ arg.duration > CHUNKIZE_VIDEO_DURATION /\ arg.chunkize
                \/ arg.video_height = 0
                \/ Selected(i)

\* a run that is not chunked skipped one profile for its height and kept a
\* minimum resolution the source is below
C18_Witness ==
    /\ EncodeApplied
    /\ Requests = {}
    /\ \E i, j \in Given :
          /\ ~Dispatched(i)
          /\ Dispatched(j) /\ ~Gif(j)
          /\ arg.video_height # 0 /\ arg.video_height < arg.profiles[j].resolution

\* C19: every job encode dispatches has the elevated priority if and only if
\* its profile's resolution is a minimum resolution.
C19_PriorityIffMinimum ==
    EncodeApplied =>
        \A k \in Jobs :
            (Events[k].priority = 9) <=>
                (arg.profiles[Events[k].profile].resolution \in MINIMUM_RESOLUTIONS_TO_ENCODE)

\* C20: for every job encode dispatches, the row with status pending was saved
\* (it has an id) before the work was enqueued, and the work carries that id.
C20_RowBeforeEnqueue ==
    EncodeApplied =>
        \A k \in Jobs :
            /\ Events[k].id # 0
            /\ \E r \in Rows :
                  /\ r < k
                  /\ Events[r].row.id = Events[k].id
                  /\ Events[r].row.profile = Events[k].profile
                  /\ Events[r].row.status = "pending"

\* encode dispatched two jobs
C20_Witness ==
    /\ EncodeApplied
    /\ Cardinality(Jobs) >= 2

\* C21: if enqueueing the work of a job fails, the job is marked fail: every
\* row encode has saved either has its work enqueued or is saved again as fail.
C21_NoOrphanPending ==
    (arg.fn = "encode_raises" /\ ret # <<>>) =>
        \A r \in Rows :
            \/ \E k \in Jobs : Events[k].id = Events[r].row.id
            \/ \E q \in Rows : /\ q > r
                                /\ Events[q].row.id = Events[r].row.id
                                /\ Events[q].row.status = "fail"

\* a step keeps to the job state machine: a new row is pending, and a row's
\* status changes only from pending to running or from running to an end
StatusMachineStep ==
    \A f \in encodings' :
        /\ (\A e \in encodings : e.id # f.id) => f.status = "pending"
        /\ \A e \in encodings :
              (e.id = f.id /\ e.status # f.status) =>
                  <<e.status, f.status>> \in {<<"pending", "running">>,
                                              <<"running", "success">>,
                                              <<"running", "fail">>}

\* C22: every Encoding the dispatcher creates starts in pending, its status is
\* always one of pending, running, success, fail, and it changes only along
\* pending -> running -> success or fail; success and fail are never left.
C22_StatusMachine ==
    /\ [](\A e \in encodings : e.status \in {"pending", "running", "success", "fail"})
    /\ [][StatusMachineStep]_vars

\* one job has ended with success and another with fail
C22_Witness ==
    \E e, f \in encodings : e.status = "success" /\ f.status = "fail"

\* the argument of the last set_progress call is an integer in 0..100
InRange == arg.p.kind \in {"int", "bool"} /\ arg.p.value \in 0..100

\* C23: set_progress(p) with p outside 0..100, or no integer, returns False and
\* leaves progress as it was; with p in 0..100 it sets progress to p, also when
\* p is lower than the current value; progress is in 0..100 after any calls.
C23_SetProgress ==
    /\ arg.progress \in 0..100
    /\ arg.stored \in 0..100
    /\ ret # <<>> =>
          /\ ~InRange => (ret[1] = FALSE /\ arg.progress = arg.before)
          /\ InRange => (ret[1] = TRUE /\ arg.progress = arg.p.value)

\* a call was accepted and lowered the progress
C23_Witness ==
    /\ ret = <<TRUE>>
    /\ arg.progress < arg.before

\* C24: when the recount after assembly does not match, the handler deletes
\* only the job it has just assembled: every other row of the (media,
\* profile), a final job of a concurrent handler too, stays in place.
C24_LoserDeletesOwn ==
    [][\A h \in Handlers :
          (pc[h] = "discard" /\ pc'[h] = "cleanup") =>
              encodings' = {e \in encodings : e.id # encoding[h]}]_vars

\* a handler has discarded its job and the final job of another handler holds
C24_Witness ==
    \E h, g \in Handlers :
        /\ h # g
        /\ pc[h] = "cleanup"
        /\ encoding[h] # 0
        /\ \A e \in encodings : e.id # encoding[h]
        /\ \E e \in encodings : e.id = encoding[g] /\ e.status = "success" /\ ~e.chunk

\* C25: when the recount after assembly matches, the handler keeps the new
\* job and deletes the other whole-file success jobs of the (media, profile);
\* whole-file jobs of the pair that are pending, running or fail stay.
C25_SupersedeOnlySuccess ==
    [][\A h \in Handlers :
          (pc[h] = "delete" /\ pc'[h] = "cleanup") =>
              \A e \in encodings :
                  /\ e.id = encoding[h] => e \in encodings'
                  /\ (~e.chunk /\ e.status # "success") => e \in encodings']_vars

\* the rows of any profile that reference the manifest
Referencing == {e \in encodings : e.chunks_info = Manifest}

\* C26: the chunk source files of a manifest are never deleted while a row of
\* any profile references the manifest: they go only in a step that finds no
\* such row, and no such row is there once they are gone.
C26_CleanupOnlyUnreferenced ==
    /\ [](~chunk_files => Referencing = {})
    /\ [][(chunk_files /\ ~chunk_files') => Referencing = {}]_vars

\* a handler that assembled a job has removed the files
C26_Witness ==
    /\ ~chunk_files
    /\ \E h \in Handlers : pc[h] \in {"final", "done"} /\ encoding[h] # 0

\* every stored output file belongs to a row of the table that has a file
NoOrphans == artifacts \subseteq Stored(encodings)

\* C27: deleting an Encoding that has an output file removes the file, so once
\* the handlers have ended every stored output file belongs to an existing
\* job; this includes the file of a job the handler discarded.
C27_NoOrphanedArtifacts == Quiescent => NoOrphans

\* C28: if the concatenation of a complete chunk set fails (nonzero exit or
\* timeout), the outcome is fail: no whole-file success job is created.
C28_ConcatFailureIsFail ==
    (arg.fn = "assemble" /\ ret # <<>> /\ arg.stdout # "ok") => ret[1] # "success"

\* ---------------------------------------------------------------------
\* media_init of a new file

MediaInitApplied == arg.fn = "media_init" /\ ret # <<>>

\* the places in what media_init did of a saved job row, an enqueued encode
\* job or a chunking request
Dispatches ==
    {k \in 1..Len(ret[1].events) :
        ret[1].events[k].kind \in {"save", "encode_media", "chunkize_media"}}

ImageOrPdf == Classified(arg.kind, arg.media_type) \in {"image", "pdf"}

Unrecognized == arg.probe.fail \/ (~arg.probe.is_video /\ ~arg.probe.is_audio)

\* C29: for a media classified as image or pdf, set_media_type sets
\* encoding_status to success at once, and media_init dispatches no encode
\* job and no chunking request.
C29_ImagePdfImmediate ==
    (MediaInitApplied /\ ImageOrPdf)
        => /\ ret[1].media.encoding_status = "success"
           /\ ret[1].media.media_type = Classified(arg.kind, arg.media_type)
           /\ Dispatches = {}

\* a pdf that the probe would take for a video, with profiles to encode:
\* media_init has returned True for it
C29_Witness ==
    /\ MediaInitApplied
    /\ arg.kind = "pdf"
    /\ arg.probe.is_video
    /\ Len(arg.profiles) = 1
    /\ ret[1].returned
    /\ ret[1].media.encoding_status = "success"

\* C30: when the probe fails or reports neither video nor audio for a file
\* that is not image/pdf, the media ends with encoding_status fail and an
\* empty media type, and media_init dispatches no encode job for it: it
\* removes the file and returns False.
C30_UnrecognizedFails ==
    (MediaInitApplied /\ ~ImageOrPdf /\ Unrecognized)
        => /\ ret[1].media.encoding_status = "fail"
           /\ ret[1].media.media_type = ""
           /\ Dispatches = {}
           /\ ~ret[1].returned
           /\ \E k \in 1..Len(ret[1].events) : ret[1].events[k].kind = "rm_file"

\* a file taken for a video by its kind, of which the probe reports neither
\* video nor audio, with a profile to encode: media_init has run
C30_Witness ==
    /\ MediaInitApplied
    /\ arg.kind = "other"
    /\ ~arg.probe.fail /\ ~arg.probe.is_video /\ ~arg.probe.is_audio
    /\ Len(arg.profiles) = 1
    /\ arg.state = "public"
    /\ ret[1].state = "unlisted"

\* ---------------------------------------------------------------------
\* the handler of a chunk that reports success

\* what a handler that only reads leaves alone: the table, the primary keys,
\* the stored status, the packaging calls, the chunk source files, the files
\* of the jobs
DatabaseUnchanged ==
    UNCHANGED <<encodings, nextId, encoding_status, hls, chunk_files, artifacts>>

\* a boundary of the manifest has no chunk row of the job's pair
BoundaryMissing(h) ==
    \E b \in 1..NumBoundaries :
        ~(\E c \in encodings : /\ c.chunk
                               /\ c.profile = instance[h].profile
                               /\ c.chunks_info = instance[h].chunks_info
                               /\ c.chunk_file_path = b)

\* a chunk row of the job's pair has no file
SiblingWithoutFile(h) ==
    \E c \in encodings : /\ c.chunk
                         /\ c.profile = instance[h].profile
                         /\ c.chunks_info = instance[h].chunks_info
                         /\ ~c.media_file

\* the worker's save of a successful chunk that has no file: the receiver
\* ends at once
ReportedWithoutFile(h) ==
    /\ pc[h] = "idle" /\ pc'[h] # "idle"
    /\ instance'[h].status = "success" /\ ~instance'[h].media_file

IncompleteStep(h) ==
    /\ ReportedWithoutFile(h)
          => /\ pc'[h] = "done"
             /\ encodings' = Save(encodings, instance'[h])
             /\ UNCHANGED <<nextId, encoding_status, hls, chunk_files, artifacts>>
    /\ (pc[h] = "exists" /\ pc'[h] # "exists")
          => /\ DatabaseUnchanged
             /\ BoundaryMissing(h) => ~complete'[h]
    /\ (pc[h] = "load" /\ pc'[h] # "load" /\ (~complete[h] \/ SiblingWithoutFile(h)))
          => /\ DatabaseUnchanged
             /\ pc'[h] = "done"
             /\ encoding'[h] = 0

\* C31: when a chunk reports success and its chunk set is incomplete (a
\* boundary has no row, a sibling has no file, or the chunk itself has no
\* file), the handler does nothing: it creates no job, deletes no job,
\* deletes no chunk source file, and neither changes the stored status of the
\* media nor schedules packaging.
C31_IncompleteNoOp == [][\A h \in Handlers : IncompleteStep(h)]_vars

\* a chunk has reported success with its file while a sibling had none, and
\* its handler is over
C31_Witness ==
    \E h \in Handlers :
        /\ pc[h] = "done"
        /\ instance[h].status = "success" /\ instance[h].media_file
        /\ ~complete[h]
        /\ encoding[h] = 0
        /\ SiblingWithoutFile(h)

\* ---------------------------------------------------------------------
\* the completeness check and duplicate rows

\* some boundary of the manifest has two or more sibling rows
BoundaryDuplicated ==
    \E b \in 1..NumBoundaries :
        Cardinality({e \in Siblings : e.chunk_file_path = b}) >= 2

\* C32: the completeness check wants every boundary of the manifest matched
\* by exactly one sibling row: a chunk set in which some boundary has two or
\* more sibling rows is judged incomplete and is not concatenated.
C32_ExactlyOneRowPerBoundary ==
    (arg.fn = "complete" /\ ret # <<>> /\ BoundaryDuplicated) => ~ret[1]

\* ---------------------------------------------------------------------
\* the hook after the assembly

\* the job handler h assembled, if its row is in the table
Survivor(h) == {e \in encodings : e.id = encoding[h] /\ ~e.chunk}

\* the step in which handler h invokes the post-encode hook
HookStep(h) == pc[h] = "final" /\ pc'[h] = "done"

\* C33: after the assembly the hook is invoked on the surviving non-chunk
\* job: the job passed to post_encode_actions exists at that moment and is
\* the final non-chunk job; and when the assembled job was discarded as the
\* loser of a race, the handler schedules no packaging.
C33_HookOnSurvivor ==
    [][\A h \in Handlers :
          HookStep(h) => IF Survivor(h) # {}
                         THEN HookArgument(h) \in Survivor(h)
                         ELSE hls' = hls]_vars

\* ---------------------------------------------------------------------
\* late and duplicate reports

\* the handlers whose chunk was reported again
Late == {h \in Handlers : pc[h] # "idle"}

\* the non-chunk jobs of the pair
FinalJobs == {e \in encodings : e.profile = ActiveProfile /\ ~e.chunk}

\* C34: a success report for a chunk that arrives after its chunk set was
\* assembled or failed and its sibling rows were deleted creates no second
\* final job, neither deletes nor alters the job that was left, and leaves
\* the stored status of the media as it was.
C34_LateReportNoOp ==
    (arg.fn = "late" /\ Cardinality(Late) = 1
        /\ \A h \in Late : instance[h].status = "success")
    => /\ FinalJobs = {arg.job}
       /\ encoding_status = arg.status

\* one chunk was reported again with its file after the set was assembled,
\* its row is in the table again and its handler is over
C34_Witness ==
    /\ arg.fn = "late" /\ arg.job.status = "success"
    /\ Cardinality(Late) = 1
    /\ \E h \in Late : /\ pc[h] = "done"
                       /\ instance[h].status = "success" /\ instance[h].media_file
                       /\ instance[h] \in encodings

\* ---------------------------------------------------------------------
\* cleanup of the chunk source files

\* C35: once every chunk set that shares the manifest has finished, by an
\* assembly or by the failure of a chunk, and no job references the manifest
\* any more, the chunk source files of the manifest are eventually deleted.
C35_CleanupLiveness == (Referencing = {}) ~> ~chunk_files

\* ---------------------------------------------------------------------
\* the order of the concatenation

\* the step in which handler h finds its set complete and has the list of
\* files for the concatenation
ConcatStep(h) == pc[h] = "load" /\ pc'[h] = "insert"

\* the sibling chunk rows of the job, as the table has them
SiblingRows(h) ==
    {c \in encodings : /\ c.chunk
                       /\ c.profile = instance[h].profile
                       /\ c.chunks_info = instance[h].chunks_info}

\* the place of a chunk file among the keys of the manifest
Position(path) == CHOOSE i \in DOMAIN orig_chunks : orig_chunks[i] = path

\* the sibling rows whose file is at place k of the list
GivenAt(h, k) == {c \in SiblingRows(h) : c.chunk_file_path = chunks_paths'[h][k]}

ConcatOrdered(h) ==
    LET places == 1..Len(chunks_paths'[h])
    IN /\ \A c \in SiblingRows(h) :
             Cardinality({k \in places : c \in GivenAt(h, k)}) = 1
       /\ \A k \in places : Cardinality(GivenAt(h, k)) = 1
       /\ \A j, k \in places :
             j < k => /\ \A c \in GivenAt(h, j), d \in GivenAt(h, k) : c.id < d.id
                      /\ Position(chunks_paths'[h][j]) < Position(chunks_paths'[h][k])

UnparsableStep(h) ==
    pc[h] = "exists" /\ pc'[h] # "exists" /\ ~Parsable(instance[h].chunks_info)

\* C37: when a chunk job with a file reports success and its manifest cannot
\* be parsed, the handler deletes that chunk job and stops: nothing is
\* concatenated, no non-chunk job is created, the sibling jobs are left as
\* they are, and no exception leaves the handler.
C37_UnparsableManifest ==
    [][\A h \in Handlers :
          UnparsableStep(h)
             => /\ pc'[h] = "done"
                /\ encodings' = {e \in encodings : e.id # instance[h].id}
                /\ nextId' = nextId /\ encoding'[h] = 0
                /\ hls' = hls]_vars

\* a chunk with an unparsable manifest has reported success with its file,
\* its handler is over, its row is gone and a sibling row is in the table
C37_Witness ==
    \E h \in Handlers :
        /\ pc[h] = "done"
        /\ instance[h].status = "success" /\ instance[h].media_file
        /\ ~Parsable(instance[h].chunks_info)
        /\ ~(\E e \in encodings : e.id = instance[h].id)
        /\ \E e \in encodings : e.chunk /\ e.profile = instance[h].profile

\* ---------------------------------------------------------------------
\* the stored status and the files

\* C38: in every state, the states in the middle of a handler included, a
\* media whose stored encoding_status is success has a non-chunk mp4 job with
\* status success that has its output file: a synthesized success job is not
\* seen by the resolver before its file is attached.
C38_SuccessHasArtifact ==
    encoding_status = "success"
    => \E e \in encodings : /\ ~e.chunk
                            /\ Extension(e.profile) = "mp4"
                            /\ e.status = "success"
                            /\ e.media_file

\* ---------------------------------------------------------------------
\* the frame of the handlers

\* the rows of the pair the handlers work for
PairRows(rows) == {e \in rows : e.media = TheMedia /\ e.profile = ActiveProfile}

\* the step in which handler h has deleted what its final job supersedes
SupersedeStep(h) == pc[h] \in {"delete", "fail_delete"} /\ pc'[h] # pc[h]

\* C39: the handling of a chunk success or of a chunk fail for a (media,
\* profile) never creates, deletes or modifies an Encoding row of another
\* profile or of another media, also when those rows carry the same
\* chunks_info; and after the handler has kept or synthesized a final job,
\* that job is the only Encoding row of any kind left for the pair.
C39_Frame ==
    [][/\ encodings' \ PairRows(encodings') = encodings \ PairRows(encodings)
       /\ \A h \in Handlers :
             SupersedeStep(h) => \A e \in PairRows(encodings') : e.id = encoding[h]]_vars

====
